---- MODULE Spec2Model ----
(***************************************************************************)
(* A model of app.py of alwaysai/smooth-semantic-segmentation:             *)
(*   - overlay_image (app.py 44-52), computed as numpy and OpenCV compute  *)
(*     it: IEEE-754 binary64 products and sums, rounded to nearest-even,   *)
(*     and a truncating conversion to 8 bits;                              *)
(*   - main's frame loop (app.py 75-150), one action per statement group.  *)
(* Binary64 values do not fit TLC's 32-bit integers, so the significands   *)
(* are naturals held as little-endian sequences of 12-bit limbs.           *)
(***************************************************************************)
EXTENDS Integers, Sequences, FiniteSets, TLC

----------------------------------------------------------------------------
(* Arbitrary-precision naturals: <<l1, ..., ln>> is l1 + l2*Limb + ...,    *)
(* without leading (rightmost) zero limbs; <<>> is zero.                   *)

Limb == 4096

LimbBits == 12

RECURSIVE Pow2(_)
Pow2(n) == IF n = 0 THEN 1 ELSE 2 * Pow2(n - 1)

RECURSIVE BigNorm(_)
BigNorm(a) ==
    IF a = <<>> THEN <<>>
    ELSE IF a[Len(a)] = 0 THEN BigNorm(SubSeq(a, 1, Len(a) - 1))
    ELSE a

RECURSIVE BigFromInt(_)
BigFromInt(n) ==
    IF n = 0 THEN <<>> ELSE <<n % Limb>> \o BigFromInt(n \div Limb)

RECURSIVE BigToInt(_)
BigToInt(a) ==
    IF a = <<>> THEN 0 ELSE a[1] + Limb * BigToInt(Tail(a))

RECURSIVE BigAddC(_, _, _)
BigAddC(a, b, c) ==
    IF a = <<>> /\ b = <<>> THEN (IF c = 0 THEN <<>> ELSE <<c>>)
    ELSE LET x == IF a = <<>> THEN 0 ELSE a[1]
             y == IF b = <<>> THEN 0 ELSE b[1]
             s == x + y + c
         IN  <<s % Limb>> \o
             BigAddC(IF a = <<>> THEN <<>> ELSE Tail(a),
                     IF b = <<>> THEN <<>> ELSE Tail(b),
                     s \div Limb)

BigAdd(a, b) == BigAddC(a, b, 0)

RECURSIVE BigMulSmallC(_, _, _)
BigMulSmallC(a, k, c) ==
    IF a = <<>> THEN BigFromInt(c)
    ELSE LET s == a[1] * k + c
         IN  <<s % Limb>> \o BigMulSmallC(Tail(a), k, s \div Limb)

\* a * k for 0 <= k <= Limb
BigMulSmall(a, k) == BigNorm(BigMulSmallC(a, k, 0))

RECURSIVE BigMul(_, _)
BigMul(a, b) ==
    IF b = <<>> \/ a = <<>> THEN <<>>
    ELSE BigAdd(BigMulSmall(a, b[1]),
                LET t == BigMul(a, Tail(b))
                IN  IF t = <<>> THEN <<>> ELSE <<0>> \o t)

\* floor(a / d) for 0 < d <= Limb, by long division from the top limb down
RECURSIVE BigDivSmallR(_, _, _)
BigDivSmallR(a, d, rem) ==
    IF a = <<>> THEN <<>>
    ELSE LET cur == rem * Limb + a[Len(a)]
         IN  BigDivSmallR(SubSeq(a, 1, Len(a) - 1), d, cur % d)
             \o <<cur \div d>>

BigDivSmall(a, d) == BigNorm(BigDivSmallR(a, d, 0))

RECURSIVE BigModSmallR(_, _, _)
BigModSmallR(a, d, rem) ==
    IF a = <<>> THEN rem
    ELSE BigModSmallR(SubSeq(a, 1, Len(a) - 1), d,
                      (rem * Limb + a[Len(a)]) % d)

BigModSmall(a, d) == BigModSmallR(a, d, 0)

RECURSIVE IntBitLen(_)
IntBitLen(n) == IF n = 0 THEN 0 ELSE 1 + IntBitLen(n \div 2)

BigBitLen(a) ==
    IF a = <<>> THEN 0 ELSE (Len(a) - 1) * LimbBits + IntBitLen(a[Len(a)])

\* a * 2^s
BigShl(a, s) ==
    IF a = <<>> THEN <<>>
    ELSE [i \in 1..(s \div LimbBits) |-> 0] \o BigMulSmall(a, Pow2(s % LimbBits))

\* floor(a / 2^s)
BigShr(a, s) ==
    IF s \div LimbBits >= Len(a) THEN <<>>
    ELSE BigDivSmall(SubSeq(a, (s \div LimbBits) + 1, Len(a)), Pow2(s % LimbBits))

\* a mod 2^s # 0
BigLowNonZero(a, s) ==
    \/ \E i \in 1..Len(a) : i <= s \div LimbBits /\ a[i] # 0
    \/ /\ s \div LimbBits < Len(a)
       /\ a[(s \div LimbBits) + 1] % Pow2(s % LimbBits) # 0

\* bit s (bit 0 is the least significant) of a
BigBit(a, s) ==
    IF s \div LimbBits >= Len(a) THEN 0
    ELSE (a[(s \div LimbBits) + 1] \div Pow2(s % LimbBits)) % 2

----------------------------------------------------------------------------
(* IEEE-754 binary64, for the finite non-negative normal values this       *)
(* program produces: [m |-> significand, e |-> exponent] is m * 2^e with   *)
(* m < 2^53 (or m = 2^53 right after a carry out of rounding).             *)

Precision == 53

\* n * 2^e rounded to Precision significant bits, to nearest, ties to even
RoundNearestEven(n, e) ==
    LET len == BigBitLen(n)
    IN  IF len <= Precision THEN [m |-> n, e |-> e]
        ELSE LET s      == len - Precision
                 q      == BigShr(n, s)
                 rbit   == BigBit(n, s - 1)
                 sticky == BigLowNonZero(n, s - 1)
                 up     == rbit = 1 /\ (sticky \/ BigBit(q, 0) = 1)
             IN  [m |-> IF up THEN BigAdd(q, <<1>>) ELSE q, e |-> e + s]

FromInt(k) == [m |-> BigFromInt(k), e |-> 0]

FMul(x, y) == RoundNearestEven(BigMul(x.m, y.m), x.e + y.e)

\* the exact sum of m1 * 2^e1 and m2 * 2^e2, as a significand over 2^min(e1, e2)
ExactSum(m1, e1, m2, e2) ==
    LET lo == IF e1 < e2 THEN e1 ELSE e2
    IN  [m |-> BigAdd(BigShl(m1, e1 - lo), BigShl(m2, e2 - lo)), e |-> lo]

FAdd(x, y) ==
    LET s == ExactSum(x.m, x.e, y.m, y.e) IN RoundNearestEven(s.m, s.e)

\* fused multiply-add: x * y + z with one rounding
FFma(x, y, z) ==
    LET s == ExactSum(BigMul(x.m, y.m), x.e + y.e, z.m, z.e)
    IN  RoundNearestEven(s.m, s.e)

\* conversion of a non-negative binary64 to an integer: towards zero
FTrunc(x) ==
    IF x.e >= 0 THEN BigToInt(BigShl(x.m, x.e)) ELSE BigToInt(BigShr(x.m, 0 - x.e))

\* 1 / d in binary64 for an integer 0 < d <= Limb: the quotient to two bits
\* more than the precision, a sticky bit for the remainder, one rounding
FRecip(d) ==
    LET sh == Precision + IntBitLen(d) + 2
        n  == BigShl(<<1>>, sh)
        q  == BigDivSmall(n, d)
        q2 == BigAdd(BigMulSmall(q, 2), IF BigModSmall(n, d) = 0 THEN <<>> ELSE <<1>>)
    IN  RoundNearestEven(q2, 0 - (sh + 1))

----------------------------------------------------------------------------
(* overlay_image, app.py 44-52.  A pixel is <<b, g, r>>, each in 0..255;   *)
(* a frame is [h, w, px] with px the h*w pixels row by row.                *)

MaxVal == 255

\* (1 / 255.0), app.py 49-50
Scale == FRecip(MaxVal)

\* cv.cvtColor(px, COLOR_BGR2GRAY) on 8-bit pixels: OpenCV's fixed-point
\* 0.114 B + 0.587 G + 0.299 R with 15 fractional bits, rounded
Bgr2Gray(p) == (p[1] * 3735 + p[2] * 19235 + p[3] * 9798 + 16384) \div 32768

\* cv.cvtColor(g, COLOR_GRAY2BGR)
Gray2Bgr(g) == <<g, g, g>>

\* background_mask of one pixel, app.py 45-47
BackgroundMask(m) == Gray2Bgr(MaxVal - Bgr2Gray(m))

\* (image * (1 / 255.0)) * (mask * (1 / 255.0)) for one channel, app.py 49-50
Masked(v, m) == FMul(FMul(FromInt(v), Scale), FMul(FromInt(m), Scale))

\* The builds of cv.addWeighted on CV_64F data: src1*alpha + src2*beta + gamma
\* with every product rounded ("plain"), or with one product fused into the
\* addition where the build contracts to a fused multiply-add ("fma1": the
\* first product fused, "fma2": the second).
Builds == {"plain", "fma1", "fma2"}

\* cv.addWeighted(x, alpha, y, beta, gamma) for one element, app.py 52
AddWeighted(x, alpha, y, beta, gamma, bld) ==
    LET a == FromInt(alpha)
        b == FromInt(beta)
        g == FromInt(gamma)
    IN  CASE bld = "plain" -> FAdd(FAdd(FMul(x, a), FMul(y, b)), g)
          [] bld = "fma1"  -> FFma(x, a, FFma(y, b, g))
          [] bld = "fma2"  -> FAdd(FFma(y, b, FMul(x, a)), g)

\* np.uint8(x) of a non-negative float64: truncation, then the low 8 bits
ToUint8(x) == FTrunc(x) % (MaxVal + 1)

\* one channel of one pixel of overlay_image's result, app.py 49-52
OverlayChannel(f, b, m, bm, bld) ==
    ToUint8(AddWeighted(Masked(f, m), MaxVal, Masked(b, bm), MaxVal, 0, bld))

\* frames are indexed from 0: row y, column x
Px(img, y, x) == img.px[(y * img.w) + x + 1]

SameShape(a, b) == a.h = b.h /\ a.w = b.w

----------------------------------------------------------------------------
(* The OpenCV and edgeiq calls of the frame loop.                          *)

White == <<255, 255, 255>>

Black == <<0, 0, 0>>

RECURSIVE SeqSum(_)
SeqSum(s) == IF s = <<>> THEN 0 ELSE s[1] + SeqSum(Tail(s))

SetMax(S) == CHOOSE v \in S : \A u \in S : u <= v

\* cv.borderInterpolate(p, len, BORDER_REFLECT_101), the default border
RECURSIVE Reflect101(_, _)
Reflect101(p, len) ==
    IF len = 1 THEN 0
    ELSE IF p < 0 THEN Reflect101(0 - p, len)
    ELSE IF p >= len THEN Reflect101(2 * (len - 1) - p, len)
    ELSE p

\* s / n rounded to nearest, ties to even (cvRound)
RoundDiv(s, n) ==
    LET q == s \div n
        r == s % n
    IN  IF 2 * r > n \/ (2 * r = n /\ q % 2 = 1) THEN q + 1 ELSE q

\* cv.blur(img, (k, k)): the normalised k x k box filter anchored at its
\* centre, app.py 117 and 134
Blur(img, k) ==
    [h  |-> img.h,
     w  |-> img.w,
     px |-> [i \in 1..(img.h * img.w) |->
                LET y == (i - 1) \div img.w
                    x == (i - 1) % img.w
                IN  [c \in 1..3 |->
                        RoundDiv(
                            SeqSum([j \in 1..(k * k) |->
                                Px(img,
                                   Reflect101(y - (k \div 2) + ((j - 1) \div k), img.h),
                                   Reflect101(x - (k \div 2) + ((j - 1) % k), img.w))[c]]),
                            k * k)]]]

\* dilatation_size, app.py 107
dilatation_size == 15

\* cv.dilate(mask, element) with the MORPH_CROSS element of size
\* 2*dilatation_size+1 anchored at its centre: the maximum over the pixels of
\* the same row or the same column within dilatation_size, app.py 107-114
Dilate(img) ==
    [h  |-> img.h,
     w  |-> img.w,
     px |-> [i \in 1..(img.h * img.w) |->
                LET y == (i - 1) \div img.w
                    x == (i - 1) % img.w
                    Abs(d) == IF d < 0 THEN 0 - d ELSE d
                    cross == {j \in 1..(img.h * img.w) :
                                LET v == (j - 1) \div img.w
                                    u == (j - 1) % img.w
                                IN  \/ v = y /\ Abs(u - x) <= dilatation_size
                                    \/ u = x /\ Abs(v - y) <= dilatation_size}
                IN  [c \in 1..3 |-> SetMax({img.px[j][c] : j \in cross})]]]

\* cv.resize(img, (w, h), interpolation=cv.INTER_NEAREST), app.py 130
Resize(img, w, h) ==
    [h  |-> h,
     w  |-> w,
     px |-> [i \in 1..(h * w) |->
                LET y == (i - 1) \div w
                    x == (i - 1) % w
                    sy == IF (y * img.h) \div h < img.h THEN (y * img.h) \div h ELSE img.h - 1
                    sx == IF (x * img.w) \div w < img.w THEN (x * img.w) \div w ELSE img.w - 1
                IN  Px(img, sy, sx)]]

\* semantic_segmentation.build_image_mask(class_map): every pixel takes the
\* colour of its class, app.py 104 (classes are numbered from 1 here)
build_image_mask(table, classes) ==
    [h  |-> classes.h,
     w  |-> classes.w,
     px |-> [i \in 1..(classes.h * classes.w) |-> table[classes.px[i]]]]

\* list.index(x): the first position holding x, 0 when there is none (where
\* Python raises ValueError), app.py 100
Index(list, x) ==
    IF \E i \in 1..Len(list) : list[i] = x
    THEN CHOOSE i \in 1..Len(list) :
            list[i] = x /\ \A j \in 1..(i - 1) : list[j] # x
    ELSE 0

----------------------------------------------------------------------------
(* The inputs the model draws from.                                        *)

\* iterations of the frame loop the model follows
MaxFrames == 2

None == [h |-> 0, w |-> 0, px |-> <<>>]

Pixels == {<<0, 0, 255>>, <<33, 33, 33>>}

\* the frames the camera delivers: one shape for the session
Frames == {[h |-> 1, w |-> 2, px |-> <<p, q>>] : p \in Pixels, q \in Pixels}

\* the still image on disk: another shape than the camera's
StillImage ==
    [h |-> 2, w |-> 3,
     px |-> <<<<255, 0, 0>>, <<0, 255, 0>>, <<90, 90, 90>>,
              <<255, 0, 0>>, <<7, 7, 7>>, <<90, 90, 90>>>>]

ImageFiles == {None, StillImage}

\* the blur_level values of the configurations tried
BlurLevels == {1, 3}

LabelLists == {<<"person", "chair", "wall">>, <<"person", "chair", "person">>}

TargetLists == {<<>>, <<"person">>, <<"chair", "person">>, <<"person", "dog">>}

\* colour tables a loaded model may carry: one colour per label
ColorTables ==
    {<<<<0, 128, 0>>, <<128, 0, 0>>, <<0, 0, 128>>>>,
     <<<<0, 128, 0>>, White, <<0, 0, 128>>>>}

\* the class maps segment_image may return for a frame: one class per pixel
ClassMaps(f, n) ==
    {[h |-> f.h, w |-> f.w, px |-> m] : m \in [1..(f.h * f.w) -> 1..n]}

----------------------------------------------------------------------------
(* overlay_image on frames.  The blends of the channel values that the     *)
(* frames, still image and masks above can produce are computed once and   *)
(* looked up; every other blend is computed when it is asked for.          *)

\* the backgrounds the frames and the still image can give
MemoBackgrounds ==
    LET shown == Frames \cup {Resize(StillImage, f.w, f.h) : f \in Frames}
    IN  shown \cup {Blur(g, k) : g \in shown, k \in BlurLevels}

MemoLevels ==
    UNION {{g.px[i][c] : i \in 1..Len(g.px), c \in 1..3} : g \in MemoBackgrounds}

MemoKeys ==
    {<<f, b, m[1], m[2], bld>> :
        f \in MemoLevels, b \in MemoLevels,
        m \in {<<255, 0>>, <<0, 255>>}, bld \in Builds}

\* the computed blends, as pairs <<key, OverlayChannel of the key>>
OverlayMemo ==
    {<<k, OverlayChannel(k[1], k[2], k[3], k[4], k[5])>> : k \in MemoKeys}

\* OverlayChannel, looked up where it was computed before
Blend(f, b, m, bm, bld) ==
    IF <<f, b, m, bm, bld>> \in MemoKeys
    THEN (CHOOSE p \in OverlayMemo : p[1] = <<f, b, m, bm, bld>>)[2]
    ELSE OverlayChannel(f, b, m, bm, bld)

\* one pixel of overlay_image's result
OverlayPixel(fp, bp, mp, bld) ==
    LET bmp == BackgroundMask(mp)
    IN  [c \in 1..3 |-> Blend(fp[c], bp[c], mp[c], bmp[c], bld)]

\* overlay_image(foreground_image, background_image, foreground_mask) on
\* frames of one shape, app.py 44-52
overlay_image(foreground_image, background_image, foreground_mask, bld) ==
    [h  |-> foreground_image.h,
     w  |-> foreground_image.w,
     px |-> [i \in 1..(foreground_image.h * foreground_image.w) |->
                OverlayPixel(foreground_image.px[i], background_image.px[i],
                             foreground_mask.px[i], bld)]]

----------------------------------------------------------------------------
(* main, app.py 55-150: the state.                                         *)

VARIABLES
    labels,                 \* semantic_segmentation.labels
    colors,                 \* semantic_segmentation.colors
    labels_to_mask,         \* config target_labels, app.py 58
    blur,                   \* config blur, app.py 61
    use_background_image,   \* config use_background_image, app.py 62
    blur_level,             \* config blur_level, app.py 63
    image_file,             \* what cv.imread finds at background_image
    build,                  \* the build of cv.addWeighted this process runs
    pc,                     \* the statement main is about to run
    frame,                  \* app.py 86 and 136
    captured,               \* the frame video_stream.read() last returned
    class_map,              \* results.class_map, app.py 88
    li,                     \* position of the for loop of app.py 99
    mask,                   \* app.py 104-117
    background,             \* app.py 120-134
    streamed,               \* the frame last given to streamer.send_data
    n_read,                 \* calls of video_stream.read() so far
    n_sent,                 \* calls of streamer.send_data() so far
    n_polled,               \* calls of streamer.check_exit() so far
    exited,                 \* check_exit() has returned true
    err                     \* the exception in flight, "none" without one

config == <<labels, labels_to_mask, blur, use_background_image, blur_level,
            image_file, build>>

loop == <<pc, frame, captured, class_map, li, mask, background, streamed,
          n_read, n_sent, n_polled, exited, err>>

vars == <<labels, colors, labels_to_mask, blur, use_background_image,
          blur_level, image_file, build, pc, frame, captured, class_map, li,
          mask, background, streamed, n_read, n_sent, n_polled, exited, err>>

Init ==
    /\ labels \in LabelLists
    /\ colors \in ColorTables
    /\ labels_to_mask \in TargetLists
    /\ blur \in BOOLEAN
    /\ use_background_image \in BOOLEAN
    /\ blur_level \in BlurLevels
    /\ image_file \in ImageFiles
    /\ build \in Builds
    /\ pc = "read"
    /\ frame = None
    /\ captured = None
    /\ class_map = None
    /\ li = 0
    /\ mask = None
    /\ background = None
    /\ streamed = None
    /\ n_read = 0
    /\ n_sent = 0
    /\ n_polled = 0
    /\ exited = FALSE
    /\ err = "none"

\* an exception leaves the with block and the loop for the finally clause
Raise(e) ==
    /\ err' = e
    /\ pc' = "finally"

----------------------------------------------------------------------------
(* main, app.py 84-150: one action per statement of the loop.              *)

\* frame = video_stream.read(), app.py 86
ReadFrame ==
    /\ pc = "read"
    /\ n_read < MaxFrames
    /\ \E f \in Frames : frame' = f /\ captured' = f
    /\ n_read' = n_read + 1
    /\ pc' = "segment"
    /\ UNCHANGED <<config, colors, class_map, li, mask, background, streamed,
                   n_sent, n_polled, exited, err>>

\* results = semantic_segmentation.segment_image(frame), app.py 88
Segment ==
    /\ pc = "segment"
    /\ class_map' \in ClassMaps(frame, Len(labels))
    /\ pc' = "colors"
    /\ UNCHANGED <<config, colors, frame, captured, li, mask, background,
                   streamed, n_read, n_sent, n_polled, exited, err>>

\* ResetColors without the reset: the table keeps the colours it had
ResetColors_kept ==
    /\ pc = "colors"
    /\ colors' = colors
    /\ li' = 1
    /\ pc' = IF Len(labels_to_mask) = 0 THEN "mask" ELSE "lookup"
    /\ UNCHANGED <<config, frame, captured, class_map, mask, background,
                   streamed, n_read, n_sent, n_polled, exited, err>>

\* semantic_segmentation.colors = [(0,0,0) for i in ...colors], app.py 96
ResetColors ==
    /\ pc = "colors"
    /\ colors' = [i \in 1..Len(colors) |-> Black]
    /\ li' = 1
    /\ pc' = IF Len(labels_to_mask) = 0 THEN "mask" ELSE "lookup"
    /\ UNCHANGED <<config, frame, captured, class_map, mask, background,
                   streamed, n_read, n_sent, n_polled, exited, err>>

\* one pass of the for loop whose label the model knows, app.py 99-101
MarkLabel ==
    /\ pc = "lookup"
    /\ li <= Len(labels_to_mask)
    /\ Index(labels, labels_to_mask[li]) # 0
    /\ colors' = [colors EXCEPT ![Index(labels, labels_to_mask[li])] = White]
    /\ li' = li + 1
    /\ pc' = IF li = Len(labels_to_mask) THEN "mask" ELSE "lookup"
    /\ UNCHANGED <<config, frame, captured, class_map, mask, background,
                   streamed, n_read, n_sent, n_polled, exited, err>>

\* LookupFail with the error swallowed: the unknown label is skipped
LookupFail_swallowed ==
    /\ pc = "lookup"
    /\ li <= Len(labels_to_mask)
    /\ Index(labels, labels_to_mask[li]) = 0
    /\ li' = li + 1
    /\ pc' = IF li = Len(labels_to_mask) THEN "mask" ELSE "lookup"
    /\ UNCHANGED <<config, colors, frame, captured, class_map, mask,
                   background, streamed, n_read, n_sent, n_polled, exited, err>>

\* labels.index(label) raises ValueError for a label the model lacks, app.py 100
LookupFail ==
    /\ pc = "lookup"
    /\ li <= Len(labels_to_mask)
    /\ Index(labels, labels_to_mask[li]) = 0
    /\ Raise("ValueError")
    /\ UNCHANGED <<config, colors, frame, captured, class_map, li, mask,
                   background, streamed, n_read, n_sent, n_polled, exited>>

\* mask = semantic_segmentation.build_image_mask(results.class_map), app.py 104
BuildMask ==
    /\ pc = "mask"
    /\ mask' = build_image_mask(colors, class_map)
    /\ pc' = "dilate"
    /\ UNCHANGED <<config, colors, frame, captured, class_map, li, background,
                   streamed, n_read, n_sent, n_polled, exited, err>>

\* mask = cv.dilate(mask, element), app.py 107-114
DilateMask ==
    /\ pc = "dilate"
    /\ mask' = Dilate(mask)
    /\ pc' = "smooth"
    /\ UNCHANGED <<config, colors, frame, captured, class_map, li, background,
                   streamed, n_read, n_sent, n_polled, exited, err>>

\* mask = cv.blur(mask, (blur_level, blur_level)), app.py 117
SmoothMask ==
    /\ pc = "smooth"
    /\ mask' = Blur(mask, blur_level)
    /\ pc' = "background"
    /\ UNCHANGED <<config, colors, frame, captured, class_map, li, background,
                   streamed, n_read, n_sent, n_polled, exited, err>>

\* background = frame, app.py 120
DefaultBackground ==
    /\ pc = "background"
    /\ background' = frame
    /\ pc' = "image"
    /\ UNCHANGED <<config, colors, frame, captured, class_map, li, mask,
                   streamed, n_read, n_sent, n_polled, exited, err>>

\* if use_background_image: false, app.py 122
SkipImage ==
    /\ pc = "image"
    /\ ~use_background_image
    /\ pc' = "blur"
    /\ UNCHANGED <<config, colors, frame, captured, class_map, li, mask,
                   background, streamed, n_read, n_sent, n_polled, exited, err>>

\* img = cv.imread(...); background = cv.resize(img, ...), app.py 124-130
LoadImage ==
    /\ pc = "image"
    /\ use_background_image
    /\ image_file # None
    /\ background' = Resize(image_file, frame.w, frame.h)
    /\ pc' = "blur"
    /\ UNCHANGED <<config, colors, frame, captured, class_map, li, mask,
                   streamed, n_read, n_sent, n_polled, exited, err>>

\* cv.imread returns None for a path it cannot read, and cv.resize(None, ...)
\* raises cv2.error, app.py 124-130
ImageFail ==
    /\ pc = "image"
    /\ use_background_image
    /\ image_file = None
    /\ Raise("cv2.error")
    /\ UNCHANGED <<config, colors, frame, captured, class_map, li, mask,
                   background, streamed, n_read, n_sent, n_polled, exited>>

\* BlurBackground blurring the frame instead of the selected background
BlurBackground_ofFrame ==
    /\ pc = "blur"
    /\ background' = IF blur THEN Blur(frame, blur_level) ELSE background
    /\ pc' = "overlay"
    /\ UNCHANGED <<config, colors, frame, captured, class_map, li, mask,
                   streamed, n_read, n_sent, n_polled, exited, err>>

\* if blur: background = cv.blur(background, ...), app.py 132-134
BlurBackground ==
    /\ pc = "blur"
    /\ background' = IF blur THEN Blur(background, blur_level) ELSE background
    /\ pc' = "overlay"
    /\ UNCHANGED <<config, colors, frame, captured, class_map, li, mask,
                   streamed, n_read, n_sent, n_polled, exited, err>>

\* frame = overlay_image(frame, background, mask), app.py 136; numpy refuses
\* operands whose shapes differ
Overlay ==
    /\ pc = "overlay"
    /\ IF SameShape(frame, background) /\ SameShape(frame, mask)
       THEN /\ frame' = overlay_image(frame, background, mask, build)
            /\ pc' = "send"
            /\ err' = err
       ELSE /\ Raise("ValueError")
            /\ frame' = frame
    /\ UNCHANGED <<config, colors, captured, class_map, li, mask, background,
                   streamed, n_read, n_sent, n_polled, exited>>

\* Send giving the streamer the frame as read instead of the composite
Send_raw ==
    /\ pc = "send"
    /\ streamed' = captured
    /\ n_sent' = n_sent + 1
    /\ pc' = "check_exit"
    /\ UNCHANGED <<config, colors, frame, captured, class_map, li, mask,
                   background, n_read, n_polled, exited, err>>

\* streamer.send_data(frame, text), app.py 138
Send ==
    /\ pc = "send"
    /\ streamed' = frame
    /\ n_sent' = n_sent + 1
    /\ pc' = "check_exit"
    /\ UNCHANGED <<config, colors, frame, captured, class_map, li, mask,
                   background, n_read, n_polled, exited, err>>

\* CheckExit without the break: the loop goes on whatever the answer
CheckExit_noBreak ==
    /\ pc = "check_exit"
    /\ n_polled' = n_polled + 1
    /\ \E answer \in BOOLEAN : exited' = answer
    /\ pc' = "read"
    /\ UNCHANGED <<config, colors, frame, captured, class_map, li, mask,
                   background, streamed, n_read, n_sent, err>>

\* fps.update(); if streamer.check_exit(): break, app.py 140-143
CheckExit ==
    /\ pc = "check_exit"
    /\ n_polled' = n_polled + 1
    /\ \E answer \in BOOLEAN :
          /\ exited' = answer
          /\ pc' = IF answer THEN "finally" ELSE "read"
    /\ UNCHANGED <<config, colors, frame, captured, class_map, li, mask,
                   background, streamed, n_read, n_sent, err>>

\* finally: ..., app.py 145-150; then main returns, or the exception goes on
Finally ==
    /\ pc = "finally"
    /\ pc' = IF err = "none" THEN "returned" ELSE "raised"
    /\ UNCHANGED <<config, colors, frame, captured, class_map, li, mask,
                   background, streamed, n_read, n_sent, n_polled, exited, err>>

Next ==
    \/ ReadFrame
    \/ Segment
    \/ ResetColors
    \/ MarkLabel
    \/ LookupFail
    \/ BuildMask
    \/ DilateMask
    \/ SmoothMask
    \/ DefaultBackground
    \/ SkipImage
    \/ LoadImage
    \/ ImageFail
    \/ BlurBackground
    \/ Overlay
    \/ Send
    \/ CheckExit
    \/ Finally

Spec == Init /\ [][Next]_vars

----------------------------------------------------------------------------
(* overlay_image alone: every call of it on frames, backgrounds and masks  *)
(* of one shape, under every build.  The call is main's own, app.py 136.   *)

\* channel values the calls are tried on
OverlayLevels == {0, 1, 33, 128, 255}

OverlayPixels ==
    {<<v, v, v>> : v \in OverlayLevels} \cup {<<0, 0, 255>>, <<255, 0, 0>>}

OverlayFrames == {[h |-> 1, w |-> 1, px |-> <<p>>] : p \in OverlayPixels}

\* gray masks, as the loop builds them: white, black and blended levels
OverlayMasks ==
    {[h |-> 1, w |-> 1, px |-> <<<<v, v, v>>>>] : v \in {0, 2, 128, 255}}

OverlayInit ==
    /\ labels = <<"person">>
    /\ colors = <<Black>>
    /\ labels_to_mask = <<"person">>
    /\ blur = FALSE
    /\ use_background_image = FALSE
    /\ blur_level = 1
    /\ image_file = None
    /\ build \in Builds
    /\ pc = "overlay"
    /\ frame \in OverlayFrames
    /\ captured = frame
    /\ class_map = None
    /\ li = 0
    /\ mask \in OverlayMasks
    /\ background \in OverlayFrames
    /\ streamed = None
    /\ n_read = 0
    /\ n_sent = 0
    /\ n_polled = 0
    /\ exited = FALSE
    /\ err = "none"

OverlayNext == Overlay

OverlaySpec == OverlayInit /\ [][OverlayNext]_vars

----------------------------------------------------------------------------
(* Properties of overlay_image, under OverlaySpec.                         *)

AllPixels(img, colour) == \A i \in 1..Len(img.px) : img.px[i] = colour

Min(a, b) == IF a < b THEN a ELSE b

Max(a, b) == IF a < b THEN b ELSE a

\* C1: with a mask that is white in every channel of every pixel, the frame
\* overlay_image returns equals the foreground frame, whatever the background.
C1_WhiteMaskReturnsForeground ==
    (pc = "send" /\ AllPixels(mask, White)) => frame = captured

\* C2: with a mask that is black in every channel of every pixel, the frame
\* overlay_image returns equals the background frame.
C2_BlackMaskReturnsBackground ==
    (pc = "send" /\ AllPixels(mask, Black)) => frame = background

\* C3: with a gray mask, every channel of every pixel of the result lies
\* between the co-located foreground and background values, so within 0..255.
C3_ResultBetweenForegroundAndBackground ==
    pc = "send" =>
        \A i \in 1..Len(frame.px) : \A c \in 1..3 :
            /\ Min(captured.px[i][c], background.px[i][c]) <= frame.px[i][c]
            /\ frame.px[i][c] <= Max(captured.px[i][c], background.px[i][c])

----------------------------------------------------------------------------
(* Properties of the frame loop, under Spec.                               *)

InList(list, x) == \E k \in 1..Len(list) : list[k] = x

\* C4: when the mask is built the colour table has one entry per label, white
\* for the labels of the target list and black for the others.
C4_ColorTableFollowsTargets ==
    pc = "mask" =>
        /\ Len(colors) = Len(labels)
        /\ \A i \in 1..Len(labels) :
              colors[i] = IF InList(labels_to_mask, labels[i]) THEN White ELSE Black

\* the for loop is about to look up a label the model does not have
MissingLabelNext ==
    /\ pc = "lookup"
    /\ li <= Len(labels_to_mask)
    /\ ~InList(labels, labels_to_mask[li])

\* C5: a target label absent from the model's labels raises an error that is
\* fatal: the lookup raises, nothing is read or sent once an error is in
\* flight, the frame of that iteration is never sent, the finally block runs
\* and the error leaves main.
C5_MissingLabelIsFatal ==
    /\ [][MissingLabelNext => (err' = "ValueError" /\ pc' = "finally")]_vars
    /\ [][err # "none" =>
            /\ err' = err
            /\ n_read' = n_read
            /\ n_sent' = n_sent
            /\ streamed' = streamed
            /\ pc' \in {"finally", "raised"}]_vars
    /\ [][(pc = "finally" /\ err # "none") => pc' = "raised"]_vars
    /\ [](err # "none" => (pc \in {"finally", "raised"} /\ n_sent < n_read))
    /\ [](pc = "returned" => err = "none")

C5_Witness ==
    /\ pc = "raised"
    /\ err = "ValueError"
    /\ ~InList(labels, labels_to_mask[li])
    /\ n_read = 1
    /\ n_sent = 0

\* C6: a missing target label or an unreadable background image aborts the
\* run before any frame has been read from the video stream.
C6_SetupErrorsBeforeLoop ==
    err \in {"ValueError", "cv2.error"} => n_read = 0

\* the order of the stages of one iteration; "lookup" repeats per target label
StageAfter(p) ==
    CASE p = "read"       -> {"segment"}
      [] p = "segment"    -> {"colors"}
      [] p = "colors"     -> {"lookup", "mask"}
      [] p = "lookup"     -> {"lookup", "mask"}
      [] p = "mask"       -> {"dilate"}
      [] p = "dilate"     -> {"smooth"}
      [] p = "smooth"     -> {"background"}
      [] p = "background" -> {"image"}
      [] p = "image"      -> {"blur"}
      [] p = "blur"       -> {"overlay"}
      [] p = "overlay"    -> {"send"}
      [] p = "send"       -> {"check_exit"}
      [] p = "check_exit" -> {"read"}
      [] OTHER            -> {}

\* C7: the stages of an iteration run in the order read, segment, build mask,
\* prepare background, composite, send; a frame is read only when every frame
\* read before has been sent, and each read frame is sent once, composited.
C7_StagesInOrder ==
    /\ [][(pc' \notin {"finally", "returned", "raised"}) =>
            pc' \in StageAfter(pc)]_<<pc, li>>
    /\ [][n_read' # n_read =>
            (pc = "read" /\ n_read' = n_read + 1 /\ n_sent = n_read)]_vars
    /\ [][n_sent' # n_sent =>
            /\ pc = "send"
            /\ n_sent' = n_sent + 1
            /\ n_sent' = n_read
            /\ streamed' = overlay_image(captured, background, mask, build)]_vars
    /\ [](n_sent <= n_read /\ n_read <= n_sent + 1)
    /\ []((err = "none" /\ pc \in {"read", "check_exit"}) => n_sent = n_read)

C7_Witness ==
    /\ pc = "check_exit"
    /\ n_read = 2
    /\ n_sent = 2
    /\ streamed = overlay_image(captured, background, mask, build)
    /\ streamed # captured

\* C8: the exit check is polled once per iteration, after that iteration's
\* frame was sent; a true answer breaks the loop: nothing is read, segmented
\* or sent after it and control is in the finally block; without an error the
\* loop is left only that way.
C8_ExitBreaksLoop ==
    /\ [][n_polled' # n_polled =>
            (pc = "check_exit" /\ n_polled' = n_polled + 1 /\ n_polled' = n_sent)]_vars
    /\ [][(exited' /\ ~exited) => (pc = "check_exit" /\ pc' = "finally")]_vars
    /\ [][exited =>
            /\ exited'
            /\ n_read' = n_read
            /\ n_sent' = n_sent
            /\ class_map' = class_map
            /\ streamed' = streamed
            /\ pc' \in {"finally", "returned"}]_vars
    /\ []((pc \in {"finally", "returned", "raised"} /\ err = "none") => exited)
    /\ [](n_polled <= n_sent /\ n_sent <= n_polled + 1)

C8_Witness ==
    /\ pc = "returned"
    /\ exited
    /\ err = "none"
    /\ n_polled = 2
    /\ n_sent = 2

\* the background main's statements select for the current frame
SelectedBackground ==
    LET chosen == IF use_background_image
                  THEN Resize(image_file, frame.w, frame.h)
                  ELSE frame
    IN  IF blur THEN Blur(chosen, blur_level) ELSE chosen

\* C9: the background given to overlay_image is the still image resized to
\* the frame's width and height when use_background_image is set and the
\* frame itself otherwise, box-blurred with blur_level exactly when blur is
\* set; it always has the shape of the frame.
C9_BackgroundSelection ==
    pc = "overlay" =>
        /\ background = SelectedBackground
        /\ SameShape(background, frame)
        /\ frame = captured

C9_Witness ==
    /\ pc = "overlay"
    /\ use_background_image
    /\ blur
    /\ blur_level = 3
    /\ background # Resize(image_file, frame.w, frame.h)
    /\ background # frame
    /\ ~SameShape(image_file, frame)

\* the colour table the loop derives from the labels and the target labels
TargetColors ==
    [i \in 1..Len(labels) |->
        IF \E k \in 1..Len(labels_to_mask) : Index(labels, labels_to_mask[k]) = i
        THEN White ELSE Black]

\* the composite of a frame and its class map under the configuration alone
Composite(f, cm) ==
    LET m      == Blur(Dilate(build_image_mask(TargetColors, cm)), blur_level)
        chosen == IF use_background_image THEN Resize(image_file, f.w, f.h) ELSE f
        bg     == IF blur THEN Blur(chosen, blur_level) ELSE chosen
    IN  overlay_image(f, bg, m, build)

\* C10: the frame sent in an iteration is a function of the frame read and the
\* class map of that iteration and of the configuration only, not of earlier
\* frames nor of the colour table the model was loaded with.
C10_FramesIndependent ==
    /\ pc = "send" => frame = Composite(captured, class_map)
    /\ pc = "check_exit" => streamed = Composite(captured, class_map)

C10_Witness ==
    /\ pc = "check_exit"
    /\ n_sent = 2
    /\ use_background_image
    /\ AllPixels(mask, White)
    /\ streamed = Composite(captured, class_map)
    /\ streamed # background

====
